---- MODULE Spec2Model ----
(***************************************************************************)
(* Supervision harness of Friday (src/main.py): the supervisor main(), the *)
(* four listener loops, the Engine 002 start thread, the health monitor,   *)
(* and the administrative writers of the controller's flags; and the       *)
(* canonical message (src/shared/message_schema.py): the constructor of    *)
(* UnifiedMessage and its factory create().                                *)
(*                                                                         *)
(* Threads interleave at the granularity of their accesses to shared       *)
(* state and of their calls into external collaborators (listeners,        *)
(* gateway, engines).  The engines, the listeners, the normalizer, the     *)
(* gateway and the controller class are imported by main.py and are not    *)
(* part of the sources; their calls are modelled by their contract         *)
(* (return, or raise) and the choice between the outcomes is               *)
(* nondeterministic.                                                       *)
(***************************************************************************)
EXTENDS Naturals, Sequences, FiniteSets, TLC

(* ------------------------------ bounds -------------------------------- *)
\* administrative writes of per-channel enable flags
MaxToggles == 1
\* KeyboardInterrupts delivered to the main thread
MaxInterrupts == 1
\* spontaneous subsystem crashes (is_running() turning false)
MaxCrashes == 2
\* subsystems that lack is_running() or get_status()
MaxLacking == 1
\* the counters of forwards made under a cleared flag saturate here
CountCap == 2
\* UnifiedMessages constructed by callers of the schema
MaxMade == 2
\* captures the listeners of the recorded channels return
MaxCaptures == 2

(* ----------------------------- constants ------------------------------ *)
Channels == {"text", "audio", "event", "signal"}

Listeners == <<"text", "audio", "event", "signal">>

SyncEngines == {"Engine_003", "Engine_004", "Engine_005", "Engine_006"}

Dependents == SyncEngines \cup {"Engine_002"}

Engines == Dependents \cup {"Engine_001"}

StartOrder == <<"Engine_003", "Engine_004", "Engine_005", "Engine_006", "Engine_002">>

\* the reverse of the start order, Engine 002 first
StopOrderMotherFirst == <<"Engine_002", "Engine_006", "Engine_005", "Engine_004", "Engine_003">>

StopOrder == <<"Engine_006", "Engine_005", "Engine_004", "Engine_003", "Engine_002">>

Caps == {"both", "is_running", "get_status", "none"}

VARIABLES
  mainPc,        \* position of main()
  failure,       \* why main() ended with an uncaught exception ("none" if it did not)
  startLog,      \* subsystems whose start() was initiated, in order
  stopLog,       \* subsystems whose stop() was invoked, in order
  allEngines,    \* the all_engines dict, as its keys in insertion order
  started,       \* per dependent subsystem: "no" | "called" | "returned" | "failed"
  running,       \* what each subsystem's is_running() returns
  caps,          \* which optional operations each subsystem exposes
  ctrlMade,      \* the UIGController exists
  engine_on,     \* controller.engine_on
  enabled,       \* controller.<channel>_enabled
  threads,       \* the listener threads started, in order
  joined,        \* how many of them main has joined
  loopPc,        \* position of each listener_loop
  monPc,         \* position of monitor_engines
  monIdx,        \* index of the subsystem the monitor is at
  warned,        \* warnings the monitor emitted per subsystem in the current period
  polled,        \* per subsystem: what is_running() returned in the current period ("no": not called)
  exited,        \* the process has exited (its daemon threads are gone)
  toggles,       \* administrative flag writes still to come
  interrupts,    \* KeyboardInterrupts so far
  crashes,       \* subsystem crashes so far
  fwdSinceOff,   \* per channel: forwards under a false flag since its flag was last cleared
  fwdSinceStop,  \* per channel: forwards since engine_on was cleared
  starved,       \* the channels whose listener threads get no processor time
  traced,        \* the channels whose captures and sleeps are recorded
  msg,           \* per recorded loop: the capture its local msg holds (0: none yet)
  captured,      \* the non-absent captures the listeners returned, in order
  forwarded,     \* the messages passed to gateway.forward, in order
  slept,         \* per recorded loop: it has slept since its last listen() returned
  uuids,         \* uuid.uuid4() calls so far
  made,          \* the UnifiedMessages constructed by callers of the schema, in order
  statusCalled   \* subsystems whose get_status() the monitor called in the current period

supVars == <<mainPc, failure, startLog, stopLog, allEngines, started, threads, joined, interrupts>>
ctrlVars == <<ctrlMade, engine_on, enabled, toggles>>
loopVars == <<loopPc, fwdSinceOff, fwdSinceStop>>
monVars == <<monPc, monIdx, warned, polled>>
engVars == <<running, caps, crashes>>

flowVars == <<msg, captured, forwarded, slept>>
msgVars == <<uuids, made>>
obsVars == <<starved, traced, flowVars, msgVars, statusCalled>>

vars == <<supVars, ctrlVars, loopVars, monVars, engVars, exited, obsVars>>

(* ------------------------------ helpers ------------------------------- *)
SeqSet(s) == {s[i] : i \in 1..Len(s)}

HasIsRunning(e) == caps[e] \in {"both", "is_running"}

HasGetStatus(e) == caps[e] \in {"both", "get_status"}

Bump(n) == IF n < CountCap THEN n + 1 ELSE n

MainEnded == mainPc \in {"done", "crashed"}

InTry == mainPc \in {"ka_while", "ka_body"}

CapChoices == {c \in [Engines -> Caps] : Cardinality({e \in Engines : c[e] # "both"}) <= MaxLacking}

(* ---------------- shared/message_schema.py: UnifiedMessage ------------- *)
\* Python's None, and the mark of a keyword argument the caller left out
None == "<None>"

Absent == "<absent>"

\* the value a parameter takes: the argument, or its default if left out
Arg(v, default) == IF v = Absent THEN default ELSE v

\* truth value of a str | None, as the operator `or` tests it
Truthy(v) == v # None /\ v # ""

\* str(uuid.uuid4()) of the n-th call: version 4 UUIDs, taken as never repeating
Uuid4(n) == "uuid4-" \o ToString(n)

\* the constructor with the classic default evaluated once, at definition time
NewMessageSharedDefault(kw, n) ==
  [engine_source |-> kw.engine_source,
   input_type    |-> kw.input_type,
   raw_payload   |-> kw.raw_payload,
   timestamp     |-> IF Truthy(Arg(kw.timestamp, None)) THEN kw.timestamp ELSE "utcnow",
   source_device |-> Arg(kw.source_device, "unknown"),
   confidence    |-> Arg(kw.confidence, "1.0"),
   privacy_flag  |-> Arg(kw.privacy_flag, "False"),
   session_id    |-> Arg(kw.session_id, Uuid4(0)),
   payload_type  |-> Arg(kw.payload_type, "string")]

\* lines 13-33: UnifiedMessage(**kw), n being the number of the uuid4() call
\* that line 32 makes when session_id is None or empty.
NewMessage(kw, n) ==
  [engine_source |-> kw.engine_source,
   input_type    |-> kw.input_type,
   raw_payload   |-> kw.raw_payload,
   timestamp     |-> IF Truthy(Arg(kw.timestamp, None)) THEN kw.timestamp ELSE "utcnow",
   source_device |-> Arg(kw.source_device, "unknown"),
   confidence    |-> Arg(kw.confidence, "1.0"),
   privacy_flag  |-> Arg(kw.privacy_flag, "False"),
   session_id    |-> IF Truthy(Arg(kw.session_id, None)) THEN kw.session_id ELSE Uuid4(n),
   payload_type  |-> Arg(kw.payload_type, "string")]

\* line 32: the constructor calls uuid4() only when session_id is None or empty
CallsUuid4(kw) == ~Truthy(Arg(kw.session_id, None))

\* the derivation with the first test left out: audio falls to the last branch
DerivedNoAudio(input_type) ==
  IF input_type \in {"event", "signal"} THEN "dict" ELSE "string"

\* lines 47-52: payload_type as create() infers it from input_type
Derived(input_type) ==
  IF input_type = "audio" THEN "binary"
  ELSE IF input_type \in {"event", "signal"} THEN "dict"
  ELSE "string"

\* lines 54-60: the keyword arguments create() passes to the constructor
CreateArgs(kw) ==
  [engine_source |-> Arg(kw.engine_source, "ENGINE_001"),
   input_type    |-> kw.input_type,
   raw_payload   |-> kw.raw_payload,
   timestamp     |-> Absent,
   source_device |-> Arg(kw.source_device, "unknown"),
   confidence    |-> Absent,
   privacy_flag  |-> Absent,
   session_id    |-> Absent,
   payload_type  |-> Derived(kw.input_type)]

\* lines 35-60: UnifiedMessage.create(**kw)
Create(kw, n) == NewMessage(CreateArgs(kw), n)

\* the input_type values callers pass: the four channels and one other value
InputTypes == {"text", "audio", "event", "signal", "video"}

PayloadTypes == {"string", "binary", "dict"}

\* calls of the constructor: any input_type with any payload_type or none, and
\* session_id left out, empty or given
DirectCalls ==
  {[engine_source |-> "ENGINE_001", input_type |-> it, raw_payload |-> 0,
    timestamp |-> Absent, source_device |-> Absent, confidence |-> Absent,
    privacy_flag |-> Absent, session_id |-> sid, payload_type |-> pt] :
     it \in InputTypes, sid \in {Absent, "", "s-1"}, pt \in PayloadTypes \cup {Absent}}

\* calls of the factory: any input_type, source_device given or left out
FactoryCalls ==
  {[engine_source |-> Absent, input_type |-> it, raw_payload |-> 0,
    source_device |-> sd] :
     it \in InputTypes, sd \in {Absent, "microphone"}}

(* ------------------------------- Init --------------------------------- *)
InitState(c, s, t, k) ==
  /\ mainPc = "start_sync"
  /\ failure = "none"
  /\ startLog = <<>>
  /\ stopLog = <<>>
  /\ allEngines = <<>>
  /\ started = [e \in Dependents |-> "no"]
  /\ running = [e \in Engines |-> FALSE]
  /\ caps = c
  /\ ctrlMade = FALSE
  /\ engine_on = TRUE
  /\ enabled = [ch \in Channels |-> TRUE]
  /\ threads = <<>>
  /\ joined = 0
  /\ loopPc = [ch \in Channels |-> "init"]
  /\ monPc = "init"
  /\ monIdx = 0
  /\ warned = [e \in Engines |-> 0]
  /\ polled = [e \in Engines |-> "no"]
  /\ exited = FALSE
  /\ toggles = k
  /\ interrupts = 0
  /\ crashes = 0
  /\ fwdSinceOff = [ch \in Channels |-> 0]
  /\ fwdSinceStop = [ch \in Channels |-> 0]
  /\ starved = s
  /\ traced = t
  /\ msg = [ch \in t |-> 0]
  /\ captured = <<>>
  /\ forwarded = <<>>
  /\ slept = [ch \in t |-> TRUE]
  /\ uuids = 0
  /\ made = <<>>
  /\ statusCalled = {}

InitWith(c) == InitState(c, {}, {}, MaxToggles)

Init == \E c \in CapChoices : InitWith(c)

InitAllCaps == InitWith([e \in Engines |-> "both"])

(* ------------------------- main(): startup ---------------------------- *)
\* lines 89-115: controller.start() of Engines 003..006 returns; the engine is
\* recorded in all_engines and main goes on to the next one.
StartReturns ==
  /\ mainPc = "start_sync"
  /\ LET e == StartOrder[Len(startLog) + 1] IN
       /\ startLog' = Append(startLog, e)
       /\ started' = [started EXCEPT ![e] = "returned"]
       /\ running' = [running EXCEPT ![e] = TRUE]
       /\ allEngines' = Append(allEngines, e)
       /\ mainPc' = IF Len(startLog) + 1 < Cardinality(SyncEngines) THEN "start_sync" ELSE "start_002"
  /\ UNCHANGED <<failure, stopLog, threads, joined, interrupts, caps, crashes>>
  /\ UNCHANGED <<ctrlVars, loopVars, monVars, exited>>
  /\ UNCHANGED obsVars

\* lines 89-115: start() raises; nothing catches it, main() ends with a traceback.
StartRaises ==
  /\ mainPc = "start_sync"
  /\ LET e == StartOrder[Len(startLog) + 1] IN
       /\ startLog' = Append(startLog, e)
       /\ started' = [started EXCEPT ![e] = "failed"]
       /\ failure' = "start"
       /\ mainPc' = "crashed"
  /\ UNCHANGED <<stopLog, allEngines, threads, joined, interrupts>>
  /\ UNCHANGED <<ctrlVars, loopVars, monVars, engVars, exited>>
  /\ UNCHANGED obsVars

\* lines 119-125: Engine 002's start() is handed to a daemon thread; main records
\* the engine and goes on without waiting for start() to return.
SpawnMother ==
  /\ mainPc = "start_002"
  /\ startLog' = Append(startLog, "Engine_002")
  /\ started' = [started EXCEPT !["Engine_002"] = "called"]
  /\ allEngines' = Append(allEngines, "Engine_002")
  /\ mainPc' = "init_001"
  /\ UNCHANGED <<failure, stopLog, threads, joined, interrupts>>
  /\ UNCHANGED <<ctrlVars, loopVars, monVars, engVars, exited>>
  /\ UNCHANGED obsVars

\* me_thread: mother_engine.start() returns.
MotherStartReturns ==
  /\ ~exited
  /\ started["Engine_002"] = "called"
  /\ started' = [started EXCEPT !["Engine_002"] = "returned"]
  /\ running' = [running EXCEPT !["Engine_002"] = TRUE]
  /\ UNCHANGED <<mainPc, failure, startLog, stopLog, allEngines, threads, joined, interrupts>>
  /\ UNCHANGED <<caps, crashes, ctrlVars, loopVars, monVars, exited>>
  /\ UNCHANGED obsVars

\* me_thread: mother_engine.start() raises; the thread ends, main is not told.
MotherStartRaises ==
  /\ ~exited
  /\ started["Engine_002"] = "called"
  /\ started' = [started EXCEPT !["Engine_002"] = "failed"]
  /\ UNCHANGED <<mainPc, failure, startLog, stopLog, allEngines, threads, joined, interrupts>>
  /\ UNCHANGED <<ctrlVars, loopVars, monVars, engVars, exited>>
  /\ UNCHANGED obsVars

\* lines 129-138: the controller, the normalizer, the gateway and the listeners.
MakeController ==
  /\ mainPc = "init_001"
  /\ ctrlMade' = TRUE
  /\ engine_on' = TRUE
  /\ enabled' = [ch \in Channels |-> TRUE]
  /\ running' = [running EXCEPT !["Engine_001"] = TRUE]
  /\ mainPc' = "spawn"
  /\ UNCHANGED <<failure, startLog, stopLog, allEngines, started, threads, joined, interrupts>>
  /\ UNCHANGED <<toggles, caps, crashes, loopVars, monVars, exited>>
  /\ UNCHANGED obsVars

\* lines 140-145: one daemon thread per listener, in list order.
SpawnLoop ==
  /\ mainPc = "spawn"
  /\ Len(threads) < Len(Listeners)
  /\ LET ch == Listeners[Len(threads) + 1] IN
       /\ loopPc' = [loopPc EXCEPT ![ch] = "while"]
       /\ threads' = Append(threads, ch)
  /\ UNCHANGED <<mainPc, failure, startLog, stopLog, allEngines, started, joined, interrupts>>
  /\ UNCHANGED <<fwdSinceOff, fwdSinceStop, ctrlVars, monVars, engVars, exited>>
  /\ UNCHANGED obsVars

\* lines 147-148
RegisterUIG ==
  /\ mainPc = "spawn"
  /\ Len(threads) = Len(Listeners)
  /\ allEngines' = Append(allEngines, "Engine_001")
  /\ mainPc' = "start_monitor"
  /\ UNCHANGED <<failure, startLog, stopLog, started, threads, joined, interrupts>>
  /\ UNCHANGED <<ctrlVars, loopVars, monVars, engVars, exited>>
  /\ UNCHANGED obsVars

\* lines 150-152
StartMonitor ==
  /\ mainPc = "start_monitor"
  /\ monPc' = "sleep"
  /\ mainPc' = "ka_while"
  /\ UNCHANGED <<failure, startLog, stopLog, allEngines, started, threads, joined, interrupts>>
  /\ UNCHANGED <<monIdx, warned, polled, ctrlVars, loopVars, engVars, exited>>
  /\ UNCHANGED obsVars

(* ------------------------ main(): keep-alive -------------------------- *)
\* line 163: the loop condition reads controller.engine_on; when it reads false
\* the loop ends normally and main falls through to the cleanup (line 209).
KeepAliveTest ==
  /\ mainPc = "ka_while"
  /\ mainPc' = IF engine_on THEN "ka_body" ELSE "join"
  /\ UNCHANGED <<failure, startLog, stopLog, allEngines, started, threads, joined, interrupts>>
  /\ UNCHANGED <<ctrlVars, loopVars, monVars, engVars, exited>>
  /\ UNCHANGED obsVars

\* lines 164-185: collect is_running()/get_status() of each engine, print, sleep.
KeepAliveBody ==
  /\ mainPc = "ka_body"
  /\ mainPc' = "ka_while"
  /\ UNCHANGED <<failure, startLog, stopLog, allEngines, started, threads, joined, interrupts>>
  /\ UNCHANGED <<ctrlVars, loopVars, monVars, engVars, exited>>
  /\ UNCHANGED obsVars

\* lines 162, 187-188: a KeyboardInterrupt raised inside the try block.
InterruptInTry ==
  /\ InTry
  /\ interrupts < MaxInterrupts
  /\ interrupts' = interrupts + 1
  /\ mainPc' = "handler"
  /\ UNCHANGED <<failure, startLog, stopLog, allEngines, started, threads, joined>>
  /\ UNCHANGED <<ctrlVars, loopVars, monVars, engVars, exited>>
  /\ UNCHANGED obsVars

\* A KeyboardInterrupt raised anywhere else in main() is caught by nothing.
InterruptElsewhere ==
  /\ ~InTry
  /\ ~MainEnded
  /\ interrupts < MaxInterrupts
  /\ interrupts' = interrupts + 1
  /\ failure' = "interrupt"
  /\ mainPc' = "crashed"
  /\ UNCHANGED <<startLog, stopLog, allEngines, started, threads, joined>>
  /\ UNCHANGED <<ctrlVars, loopVars, monVars, engVars, exited>>
  /\ UNCHANGED obsVars

(* ------------------------- main(): shutdown --------------------------- *)
\* line 189 skipped: the handler goes on to the stop() calls with engine_on as it is.
HandlerKeepsEngineOn ==
  /\ mainPc = "handler"
  /\ mainPc' = "stopping"
  /\ UNCHANGED <<failure, startLog, stopLog, allEngines, started, threads, joined, interrupts>>
  /\ UNCHANGED <<ctrlVars, loopVars, monVars, engVars, exited>>
  /\ UNCHANGED obsVars

\* line 189
HandlerOff ==
  /\ mainPc = "handler"
  /\ engine_on' = FALSE
  /\ mainPc' = "stopping"
  /\ UNCHANGED <<failure, startLog, stopLog, allEngines, started, threads, joined, interrupts>>
  /\ UNCHANGED <<ctrlMade, enabled, toggles, loopVars, monVars, engVars, exited>>
  /\ UNCHANGED obsVars

\* lines 194-207: the next stop() of the handler returns.
StopReturns ==
  /\ mainPc = "stopping"
  /\ LET e == StopOrder[Len(stopLog) + 1] IN
       /\ stopLog' = Append(stopLog, e)
       /\ running' = [running EXCEPT ![e] = FALSE]
       /\ mainPc' = IF Len(stopLog) + 1 < Len(StopOrder) THEN "stopping" ELSE "join"
  /\ UNCHANGED <<failure, startLog, allEngines, started, threads, joined, interrupts>>
  /\ UNCHANGED <<caps, crashes, ctrlVars, loopVars, monVars, exited>>
  /\ UNCHANGED obsVars

\* lines 194-207: the next stop() raises inside the except block; nothing catches
\* it, so main() ends there with a traceback.
StopRaises ==
  /\ mainPc = "stopping"
  /\ LET e == StopOrder[Len(stopLog) + 1] IN
       /\ stopLog' = Append(stopLog, e)
       /\ failure' = "stop"
       /\ mainPc' = "crashed"
  /\ UNCHANGED <<startLog, allEngines, started, threads, joined, interrupts>>
  /\ UNCHANGED <<ctrlVars, loopVars, monVars, engVars, exited>>
  /\ UNCHANGED obsVars

\* lines 211-212: t.join(timeout=1) returns, the thread finished or not.
JoinLoop ==
  /\ mainPc = "join"
  /\ joined < Len(threads)
  /\ joined' = joined + 1
  /\ UNCHANGED <<mainPc, failure, startLog, stopLog, allEngines, started, threads, interrupts>>
  /\ UNCHANGED <<ctrlVars, loopVars, monVars, engVars, exited>>
  /\ UNCHANGED obsVars

\* lines 214-215: me_thread.join(timeout=1), "All engines stopped.", return.
JoinMother ==
  /\ mainPc = "join"
  /\ joined = Len(threads)
  /\ mainPc' = "done"
  /\ UNCHANGED <<failure, startLog, stopLog, allEngines, started, threads, joined, interrupts>>
  /\ UNCHANGED <<ctrlVars, loopVars, monVars, engVars, exited>>
  /\ UNCHANGED obsVars

\* After main() has ended the interpreter exits once no non-daemon thread is
\* left; the listener, monitor and Engine 002 threads are daemons and end with it.
ProcessExit ==
  /\ MainEnded
  /\ ~exited
  /\ exited' = TRUE
  /\ UNCHANGED <<supVars, ctrlVars, loopVars, monVars, engVars>>
  /\ UNCHANGED obsVars

(* ------------------- administrative control surface ------------------- *)
\* stop-all: engine_on is cleared from outside main().
AdminStop ==
  /\ ctrlMade
  /\ ~exited
  /\ engine_on
  /\ engine_on' = FALSE
  /\ UNCHANGED <<ctrlMade, enabled, toggles>>
  /\ UNCHANGED <<supVars, loopVars, monVars, engVars, exited>>
  /\ UNCHANGED obsVars

\* a per-channel enable flag is written.
SetChannel(ch, v) ==
  /\ ctrlMade
  /\ ~exited
  /\ toggles > 0
  /\ enabled[ch] # v
  /\ enabled' = [enabled EXCEPT ![ch] = v]
  /\ toggles' = toggles - 1
  /\ fwdSinceOff' = IF v THEN fwdSinceOff ELSE [fwdSinceOff EXCEPT ![ch] = 0]
  /\ UNCHANGED <<ctrlMade, engine_on, loopPc, fwdSinceStop>>
  /\ UNCHANGED <<supVars, monVars, engVars, exited>>
  /\ UNCHANGED obsVars

\* a supervised subsystem stops running on its own.
EngineCrash(e) ==
  /\ ~exited
  /\ crashes < MaxCrashes
  /\ running[e]
  /\ running' = [running EXCEPT ![e] = FALSE]
  /\ crashes' = crashes + 1
  /\ UNCHANGED caps
  /\ UNCHANGED <<supVars, ctrlVars, loopVars, monVars, exited>>
  /\ UNCHANGED obsVars

(* --------------------------- listener_loop ---------------------------- *)
\* how many entries of a log (of captures, of messages) belong to a channel
Count(log, ch) == Cardinality({i \in 1..Len(log) : log[i].input_type = ch})

\* a sleep of the loop of a recorded channel ends
Sleeps(ch) == slept' = IF ch \in traced THEN [slept EXCEPT ![ch] = TRUE] ELSE slept

\* a listen() of the loop of a recorded channel ends
Listened(ch) == slept' = IF ch \in traced THEN [slept EXCEPT ![ch] = FALSE] ELSE slept

\* line 56: normalizer.normalize(msg) makes the canonical message of a capture
Normalize(ch, payload, n) ==
  Create([engine_source |-> Absent, input_type |-> ch, raw_payload |-> payload,
          source_device |-> Absent], n)

\* "while True": the loop condition does not read engine_on.
LoopWhileForever(ch) ==
  /\ ~exited
  /\ ch \notin starved
  /\ loopPc[ch] = "while"
  /\ loopPc' = [loopPc EXCEPT ![ch] = "gate"]
  /\ UNCHANGED <<fwdSinceOff, fwdSinceStop>>
  /\ UNCHANGED <<supVars, ctrlVars, monVars, engVars, exited>>
  /\ UNCHANGED obsVars

\* line 31: the loop condition reads controller.engine_on.
LoopWhile(ch) ==
  /\ ~exited
  /\ ch \notin starved
  /\ loopPc[ch] = "while"
  /\ loopPc' = [loopPc EXCEPT ![ch] = IF engine_on THEN "gate" ELSE "done"]
  /\ UNCHANGED <<fwdSinceOff, fwdSinceStop>>
  /\ UNCHANGED <<supVars, ctrlVars, monVars, engVars, exited>>
  /\ UNCHANGED obsVars

\* the channel check left out: the loop goes on to the capture whatever the flag.
LoopGateOpen(ch) ==
  /\ ~exited
  /\ ch \notin starved
  /\ loopPc[ch] = "gate"
  /\ loopPc' = [loopPc EXCEPT ![ch] = "listen"]
  /\ UNCHANGED <<fwdSinceOff, fwdSinceStop>>
  /\ UNCHANGED <<supVars, ctrlVars, monVars, engVars, exited>>
  /\ UNCHANGED obsVars

\* the isinstance tests left out: a loop idles when any channel's flag is false.
LoopGateAnyFlag(ch) ==
  /\ ~exited
  /\ ch \notin starved
  /\ loopPc[ch] = "gate"
  /\ loopPc' = [loopPc EXCEPT ![ch] = IF \A c \in Channels : enabled[c] THEN "listen" ELSE "idle"]
  /\ UNCHANGED <<fwdSinceOff, fwdSinceStop>>
  /\ UNCHANGED <<supVars, ctrlVars, monVars, engVars, exited>>
  /\ UNCHANGED obsVars

\* lines 33-44: of the four isinstance tests only the listener's own reads a
\* flag; when the flag reads false the loop goes to its sleep(0.1).
LoopGate(ch) ==
  /\ ~exited
  /\ ch \notin starved
  /\ loopPc[ch] = "gate"
  /\ loopPc' = [loopPc EXCEPT ![ch] = IF enabled[ch] THEN "listen" ELSE "idle"]
  /\ UNCHANGED <<fwdSinceOff, fwdSinceStop>>
  /\ UNCHANGED <<supVars, ctrlVars, monVars, engVars, exited>>
  /\ UNCHANGED obsVars

\* break in place of continue: a loop that finds its flag false ends.
LoopIdleBreaks(ch) ==
  /\ ~exited
  /\ ch \notin starved
  /\ loopPc[ch] = "idle"
  /\ loopPc' = [loopPc EXCEPT ![ch] = "done"]
  /\ UNCHANGED <<fwdSinceOff, fwdSinceStop>>
  /\ UNCHANGED <<supVars, ctrlVars, monVars, engVars, exited>>
  /\ Sleeps(ch)
  /\ UNCHANGED <<msg, captured, forwarded>>
  /\ UNCHANGED <<starved, traced, msgVars, statusCalled>>

\* lines 34-35 (37-38, 40-41, 43-44): sleep(0.1), continue.
LoopIdle(ch) ==
  /\ ~exited
  /\ ch \notin starved
  /\ loopPc[ch] = "idle"
  /\ loopPc' = [loopPc EXCEPT ![ch] = "while"]
  /\ UNCHANGED <<fwdSinceOff, fwdSinceStop>>
  /\ UNCHANGED <<supVars, ctrlVars, monVars, engVars, exited>>
  /\ Sleeps(ch)
  /\ UNCHANGED <<msg, captured, forwarded>>
  /\ UNCHANGED <<starved, traced, msgVars, statusCalled>>

\* `msg = msg or listener.listen()`: the loop keeps its first capture.
ListenCaptureKeepsFirst(ch) ==
  /\ ~exited
  /\ ch \notin starved
  /\ loopPc[ch] = "listen"
  /\ loopPc' = [loopPc EXCEPT ![ch] = "forward"]
  /\ UNCHANGED <<fwdSinceOff, fwdSinceStop>>
  /\ UNCHANGED <<supVars, ctrlVars, monVars, engVars, exited>>
  /\ IF ch \in traced
       THEN /\ Len(captured) < MaxCaptures
            /\ msg' = [msg EXCEPT ![ch] = IF @ = 0 THEN 1 ELSE @]
            /\ captured' = Append(captured, [input_type |-> ch,
                                             raw_payload |-> Count(captured, ch) + 1])
       ELSE UNCHANGED <<msg, captured>>
  /\ Listened(ch)
  /\ UNCHANGED forwarded
  /\ UNCHANGED <<starved, traced, msgVars, statusCalled>>

\* line 48: listener.listen() returns a capture.
ListenCapture(ch) ==
  /\ ~exited
  /\ ch \notin starved
  /\ loopPc[ch] = "listen"
  /\ loopPc' = [loopPc EXCEPT ![ch] = "forward"]
  /\ UNCHANGED <<fwdSinceOff, fwdSinceStop>>
  /\ UNCHANGED <<supVars, ctrlVars, monVars, engVars, exited>>
  /\ IF ch \in traced
       THEN /\ Len(captured) < MaxCaptures
            /\ msg' = [msg EXCEPT ![ch] = Count(captured, ch) + 1]
            /\ captured' = Append(captured, [input_type |-> ch, raw_payload |-> msg'[ch]])
       ELSE UNCHANGED <<msg, captured>>
  /\ Listened(ch)
  /\ UNCHANGED forwarded
  /\ UNCHANGED <<starved, traced, msgVars, statusCalled>>

\* lines 48-50: listener.listen() returns None; continue.
ListenAbsent(ch) ==
  /\ ~exited
  /\ ch \notin starved
  /\ loopPc[ch] = "listen"
  /\ loopPc' = [loopPc EXCEPT ![ch] = "while"]
  /\ UNCHANGED <<fwdSinceOff, fwdSinceStop>>
  /\ UNCHANGED <<supVars, ctrlVars, monVars, engVars, exited>>
  /\ Listened(ch)
  /\ UNCHANGED <<msg, captured, forwarded>>
  /\ UNCHANGED <<starved, traced, msgVars, statusCalled>>

\* no except clause: the exception of listen() ends the thread.
ListenRaisesUncaught(ch) ==
  /\ ~exited
  /\ ch \notin starved
  /\ loopPc[ch] = "listen"
  /\ loopPc' = [loopPc EXCEPT ![ch] = "done"]
  /\ UNCHANGED <<fwdSinceOff, fwdSinceStop>>
  /\ UNCHANGED <<supVars, ctrlVars, monVars, engVars, exited>>
  /\ Listened(ch)
  /\ UNCHANGED <<msg, captured, forwarded>>
  /\ UNCHANGED <<starved, traced, msgVars, statusCalled>>

\* lines 48, 51: listener.listen() raises; control goes to the except clause.
ListenRaises(ch) ==
  /\ ~exited
  /\ ch \notin starved
  /\ loopPc[ch] = "listen"
  /\ loopPc' = [loopPc EXCEPT ![ch] = "except"]
  /\ UNCHANGED <<fwdSinceOff, fwdSinceStop>>
  /\ UNCHANGED <<supVars, ctrlVars, monVars, engVars, exited>>
  /\ Listened(ch)
  /\ UNCHANGED <<msg, captured, forwarded>>
  /\ UNCHANGED <<starved, traced, msgVars, statusCalled>>

\* lines 52-53: print the error, continue.
LoopExcept(ch) ==
  /\ ~exited
  /\ ch \notin starved
  /\ loopPc[ch] = "except"
  /\ loopPc' = [loopPc EXCEPT ![ch] = "while"]
  /\ UNCHANGED <<fwdSinceOff, fwdSinceStop>>
  /\ UNCHANGED <<supVars, ctrlVars, monVars, engVars, exited>>
  /\ UNCHANGED obsVars

\* gateway.forward called a second time with the same message.
LoopForwardTwice(ch) ==
  /\ ~exited
  /\ ch \notin starved
  /\ loopPc[ch] = "forward"
  /\ loopPc' = [loopPc EXCEPT ![ch] = "sleep"]
  /\ fwdSinceOff' = [fwdSinceOff EXCEPT ![ch] = IF enabled[ch] THEN @ ELSE Bump(@)]
  /\ fwdSinceStop' = [fwdSinceStop EXCEPT ![ch] = IF engine_on THEN @ ELSE Bump(@)]
  /\ UNCHANGED <<supVars, ctrlVars, monVars, engVars, exited>>
  /\ IF ch \in traced
       THEN /\ forwarded' = forwarded \o << Normalize(ch, msg[ch], uuids + 1),
                                              Normalize(ch, msg[ch], uuids + 1) >>
            /\ uuids' = uuids + 1
       ELSE UNCHANGED <<forwarded, uuids>>
  /\ UNCHANGED <<msg, captured, slept, made>>
  /\ UNCHANGED <<starved, traced, statusCalled>>

\* lines 56-59: normalizer.normalize(msg), gateway.forward(normalized_msg).
LoopForward(ch) ==
  /\ ~exited
  /\ ch \notin starved
  /\ loopPc[ch] = "forward"
  /\ loopPc' = [loopPc EXCEPT ![ch] = "sleep"]
  /\ fwdSinceOff' = [fwdSinceOff EXCEPT ![ch] = IF enabled[ch] THEN @ ELSE Bump(@)]
  /\ fwdSinceStop' = [fwdSinceStop EXCEPT ![ch] = IF engine_on THEN @ ELSE Bump(@)]
  /\ UNCHANGED <<supVars, ctrlVars, monVars, engVars, exited>>
  /\ IF ch \in traced
       THEN /\ forwarded' = Append(forwarded, Normalize(ch, msg[ch], uuids + 1))
            /\ uuids' = uuids + 1
       ELSE UNCHANGED <<forwarded, uuids>>
  /\ UNCHANGED <<msg, captured, slept, made>>
  /\ UNCHANGED <<starved, traced, statusCalled>>

\* line 61: sleep(0.05).
LoopSleep(ch) ==
  /\ ~exited
  /\ ch \notin starved
  /\ loopPc[ch] = "sleep"
  /\ loopPc' = [loopPc EXCEPT ![ch] = "while"]
  /\ UNCHANGED <<fwdSinceOff, fwdSinceStop>>
  /\ UNCHANGED <<supVars, ctrlVars, monVars, engVars, exited>>
  /\ Sleeps(ch)
  /\ UNCHANGED <<msg, captured, forwarded>>
  /\ UNCHANGED <<starved, traced, msgVars, statusCalled>>

(* -------------------------- monitor_engines --------------------------- *)
\* lines 67-70: sleep(10) ends and a pass over engines.items() begins.
MonitorWake ==
  /\ ~exited
  /\ monPc = "sleep"
  /\ monPc' = "check"
  /\ monIdx' = 1
  /\ warned' = [e \in Engines |-> 0]
  /\ polled' = [e \in Engines |-> "no"]
  /\ statusCalled' = {}
  /\ UNCHANGED <<supVars, ctrlVars, loopVars, engVars, exited>>
  /\ UNCHANGED <<starved, traced, flowVars, msgVars>>

\* the hasattr test left out: a subsystem without is_running() is reported too.
MonitorCheckNoHasattr ==
  /\ ~exited
  /\ monPc = "check"
  /\ LET e == allEngines[monIdx] IN
       /\ warned' = IF ~HasIsRunning(e) \/ ~running[e]
                    THEN [warned EXCEPT ![e] = Bump(@)] ELSE warned
       /\ polled' = IF HasIsRunning(e)
                    THEN [polled EXCEPT ![e] = IF running[e] THEN "up" ELSE "down"] ELSE polled
  /\ monPc' = "status"
  /\ UNCHANGED monIdx
  /\ UNCHANGED <<supVars, ctrlVars, loopVars, engVars, exited>>
  /\ UNCHANGED obsVars

\* lines 71-73: is_running() is called if the subsystem has it, and a warning
\* naming the subsystem is printed when it returns false.
MonitorCheckRunning ==
  /\ ~exited
  /\ monPc = "check"
  /\ LET e == allEngines[monIdx] IN
       /\ warned' = IF HasIsRunning(e) /\ ~running[e]
                    THEN [warned EXCEPT ![e] = Bump(@)] ELSE warned
       /\ polled' = IF HasIsRunning(e)
                    THEN [polled EXCEPT ![e] = IF running[e] THEN "up" ELSE "down"] ELSE polled
  /\ monPc' = "status"
  /\ UNCHANGED monIdx
  /\ UNCHANGED <<supVars, ctrlVars, loopVars, engVars, exited>>
  /\ UNCHANGED obsVars

\* a monitor that heals: get_status() is called on every subsystem, and a
\* subsystem found not running is started again.
MonitorLogStatusHeals ==
  /\ ~exited
  /\ monPc = "status"
  /\ LET e == allEngines[monIdx] IN
       /\ statusCalled' = statusCalled \cup {e}
       /\ running' = [running EXCEPT ![e] = TRUE]
  /\ IF monIdx < Len(allEngines)
       THEN monIdx' = monIdx + 1 /\ monPc' = "check"
       ELSE monIdx' = monIdx + 1 /\ monPc' = "sleep"
  /\ UNCHANGED <<warned, polled, caps, crashes>>
  /\ UNCHANGED <<supVars, ctrlVars, loopVars, exited>>
  /\ UNCHANGED <<starved, traced, flowVars, msgVars>>

\* lines 76-78: get_status() is called if the subsystem has it and its status is
\* printed; then the next subsystem, or the next sleep.
MonitorLogStatus ==
  /\ ~exited
  /\ monPc = "status"
  /\ LET e == allEngines[monIdx] IN
       statusCalled' = IF HasGetStatus(e) THEN statusCalled \cup {e} ELSE statusCalled
  /\ IF monIdx < Len(allEngines)
       THEN monIdx' = monIdx + 1 /\ monPc' = "check"
       ELSE monIdx' = monIdx + 1 /\ monPc' = "sleep"
  /\ UNCHANGED <<warned, polled>>
  /\ UNCHANGED <<supVars, ctrlVars, loopVars, engVars, exited>>
  /\ UNCHANGED <<starved, traced, flowVars, msgVars>>

(* -------------------- callers of the message schema ------------------- *)
\* lines 13-33: a caller constructs a UnifiedMessage directly.
ConstructDirect ==
  /\ Len(made) < MaxMade
  /\ \E kw \in DirectCalls :
       /\ made' = Append(made, [by |-> "init", sid_given |-> kw.session_id # Absent,
                                message |-> NewMessage(kw, uuids + 1)])
       /\ uuids' = IF CallsUuid4(kw) THEN uuids + 1 ELSE uuids
  /\ UNCHANGED <<supVars, ctrlVars, loopVars, monVars, engVars, exited>>
  /\ UNCHANGED <<starved, traced, flowVars, statusCalled>>

\* lines 35-60: a caller constructs a UnifiedMessage through the factory.
ConstructViaFactory ==
  /\ Len(made) < MaxMade
  /\ \E kw \in FactoryCalls :
       /\ made' = Append(made, [by |-> "create", sid_given |-> FALSE,
                                message |-> Create(kw, uuids + 1)])
       /\ uuids' = IF CallsUuid4(CreateArgs(kw)) THEN uuids + 1 ELSE uuids
  /\ UNCHANGED <<supVars, ctrlVars, loopVars, monVars, engVars, exited>>
  /\ UNCHANGED <<starved, traced, flowVars, statusCalled>>

(* ------------------------- next-state relations ----------------------- *)
StartupStep ==
  \/ StartReturns
  \/ SpawnMother
  \/ MakeController
  \/ SpawnLoop
  \/ RegisterUIG
  \/ StartMonitor

KeepAliveStep ==
  \/ KeepAliveTest
  \/ KeepAliveBody

ShutdownStep ==
  \/ InterruptInTry
  \/ HandlerOff
  \/ StopReturns

CleanupStep ==
  \/ JoinLoop
  \/ JoinMother
  \/ ProcessExit

FailureStep ==
  \/ StartRaises
  \/ StopRaises
  \/ InterruptElsewhere
  \/ MotherStartRaises

GatedLoopStep(ch) ==
  \/ LoopWhile(ch)
  \/ LoopGate(ch)
  \/ ListenCapture(ch)
  \/ ListenAbsent(ch)
  \/ LoopForward(ch)
  \/ LoopSleep(ch)

LoopStep(ch) ==
  \/ GatedLoopStep(ch)
  \/ LoopIdle(ch)
  \/ ListenRaises(ch)
  \/ LoopExcept(ch)

MonitorStep ==
  \/ MonitorWake
  \/ MonitorCheckRunning
  \/ MonitorLogStatus

Next ==
  \/ StartupStep
  \/ KeepAliveStep
  \/ ShutdownStep
  \/ CleanupStep
  \/ FailureStep
  \/ MotherStartReturns
  \/ AdminStop
  \/ \E ch \in Channels : LoopStep(ch)
  \/ \E ch \in Channels, v \in BOOLEAN : SetChannel(ch, v)
  \/ MonitorStep
  \/ \E e \in Engines : EngineCrash(e)

Spec == Init /\ [][Next]_vars

\* The supervisor with its threads: every outcome of start() and stop(), the
\* interrupt, stop-all.  The channel flags stay as constructed and the monitor,
\* which writes nothing the supervisor reads, is left out.
SupNext ==
  \/ StartupStep
  \/ KeepAliveStep
  \/ ShutdownStep
  \/ CleanupStep
  \/ FailureStep
  \/ MotherStartReturns
  \/ AdminStop
  \/ \E ch \in Channels : GatedLoopStep(ch)

SupSpec == InitAllCaps /\ [][SupNext]_vars

\* The listener loops under every writer of the controller's flags.  After the
\* startup main() acts on the loops only by clearing engine_on (as stop-all does)
\* and by ending the process (after which no loop takes a step), so its
\* keep-alive, shutdown and cleanup steps are left out here, as are the Engine
\* 002 thread and the monitor.
LoopNext ==
  \/ StartupStep
  \/ AdminStop
  \/ \E ch \in Channels : LoopStep(ch)
  \/ \E ch \in Channels, v \in BOOLEAN : SetChannel(ch, v)

LoopSpec == InitAllCaps /\ [][LoopNext]_vars

\* The health monitor over subsystems that stop running and subsystems that
\* lack the optional operations.  The monitor reads all_engines, fixed once it
\* is started, and what is_running() returns, which a stop() of the shutdown
\* changes as a crash does; main()'s steps after the startup and the listener
\* threads, which share nothing else with the monitor, are left out.
MonNext ==
  \/ StartupStep
  \/ MotherStartReturns
  \/ MonitorStep
  \/ \E e \in Engines : EngineCrash(e)

MonSpec == Init /\ [][MonNext]_vars

\* Two of the four listener loops under every writer of the controller's flags.
\* The loops share only the controller's flags, which they read, and the
\* gateway, so what two of them do is not changed by the steps of the other
\* two: those get no processor time here, and every pair is taken.
Pairs == {p \in SUBSET Channels : Cardinality(p) = 2}

ChanNext ==
  \/ StartupStep
  \/ AdminStop
  \/ \E ch \in Channels : LoopStep(ch)
  \/ \E ch \in Channels, v \in BOOLEAN : ch \notin starved /\ SetChannel(ch, v)

\* ... with the captures, the forwards and the sleeps of the two loops recorded
FlowInit == \E p \in Pairs : InitState([e \in Engines |-> "both"], Channels \ p, p, MaxToggles)

FlowSpec == FlowInit /\ [][ChanNext]_vars

\* Two of the four listener loops while engine_on stays true, with one more
\* flag write, so that a flag can be cleared and set again, and under fair
\* scheduling of the listener threads: a loop that can take a step eventually
\* takes one.  Whether listen() ever returns a capture is the listener's
\* matter and is not assumed here.
LiveInit == \E p \in Pairs : InitState([e \in Engines |-> "both"], Channels \ p, {}, MaxToggles + 1)

LiveNext ==
  \/ StartupStep
  \/ \E ch \in Channels : LoopStep(ch)
  \/ \E ch \in Channels, v \in BOOLEAN : ch \notin starved /\ SetChannel(ch, v)

LiveSpec == LiveInit /\ [][LiveNext]_vars /\ \A ch \in Channels : WF_vars(LoopStep(ch))

\* The message schema under its callers: every call of the constructor and of
\* the factory drawn from DirectCalls and FactoryCalls, in any order.
MsgNext ==
  \/ ConstructDirect
  \/ ConstructViaFactory

MsgSpec == InitAllCaps /\ [][MsgNext]_vars

(* ============================ the claims ============================== *)

(* C1 as stated: while a channel's enable flag is false, gateway.forward is
   never called with a message of that channel. *)
C1_NoForwardWhileDisabled ==
  \A ch \in Channels : fwdSinceOff[ch] = 0

(* C1 as amended: while a channel's enable flag stays false its loop forwards
   at most one message (the capture whose cycle passed the channel check before
   the flag was cleared), and once the loop has read the flag false it neither
   captures nor forwards in that cycle: it sleeps and goes back to the top. *)
C1_AtMostOneForwardWhileDisabled ==
  /\ [](\A ch \in Channels : ~enabled[ch] => fwdSinceOff[ch] <= 1)
  /\ [][\A ch \in Channels :
          (loopPc[ch] = "gate" /\ ~enabled[ch]) => loopPc'[ch] \in {"gate", "idle"}]_vars
  /\ [][\A ch \in Channels : loopPc[ch] = "idle" => loopPc'[ch] \in {"idle", "while"}]_vars

\* a channel whose in-flight capture was forwarded under a cleared flag, its
\* loop now idling behind the flag
C1_Witness ==
  \E ch \in Channels : ~enabled[ch] /\ fwdSinceOff[ch] = 1 /\ loopPc[ch] = "idle"

\* The number of steps listener_loop still takes from a position when the loop
\* condition reads false at its next evaluation, on its longest path.
StepsToExit(pc) ==
  CASE pc = "done" -> 0
    [] pc = "while" -> 1
    [] pc \in {"idle", "except", "sleep"} -> 2
    [] pc = "forward" -> 3
    [] pc = "listen" -> 4
    [] OTHER -> 5

(* C2: once engine_on is false every listener loop ends within one cycle,
   whatever the channel flags: it forwards at most once more; every step it
   takes brings it strictly closer to its exit (so it starts no new cycle and
   ends after at most the steps of one cycle); until it has ended it always
   has a step to take, so that under fair scheduling it does end; and a loop
   that has ended takes no step and forwards nothing. *)
C2_LoopsStopWithinOneCycle ==
  /\ [](\A ch \in Channels : fwdSinceStop[ch] <= 1)
  /\ [](\A ch \in Channels :
          (~engine_on /\ loopPc[ch] \notin {"init", "done"}) => ENABLED LoopStep(ch))
  /\ [][\A ch \in Channels :
          (~engine_on /\ loopPc[ch] # "init" /\ loopPc'[ch] # loopPc[ch]) =>
             StepsToExit(loopPc'[ch]) < StepsToExit(loopPc[ch])]_vars
  /\ [][\A ch \in Channels : loopPc[ch] = "done" =>
          (loopPc'[ch] = "done" /\ fwdSinceStop'[ch] = fwdSinceStop[ch])]_vars

\* all four loops have ended after engine_on was cleared, one of them having
\* forwarded its in-flight capture, under a disabled channel
C2_Witness ==
  /\ ~engine_on
  /\ \A ch \in Channels : loopPc[ch] = "done"
  /\ \E ch \in Channels : fwdSinceStop[ch] = 1
  /\ \E ch \in Channels : ~enabled[ch]

(* C7: a capture error never ends a listener loop: from the except clause the
   loop goes back to the loop condition without forwarding, and a loop has
   ended only if engine_on is false. *)
C7_CaptureErrorKeepsLoop ==
  /\ [](\A ch \in Channels : loopPc[ch] = "done" => ~engine_on)
  /\ [][\A ch \in Channels : loopPc[ch] = "except" =>
          (/\ loopPc'[ch] \in {"except", "while"}
           /\ fwdSinceOff'[ch] = fwdSinceOff[ch]
           /\ fwdSinceStop'[ch] = fwdSinceStop[ch])]_vars
  /\ [][\A ch \in Channels : (loopPc[ch] = "listen" /\ loopPc'[ch] # "listen") =>
          loopPc'[ch] \in {"forward", "while", "except"}]_vars

\* every listener is in its except clause at once, engine_on still true
C7_Witness ==
  /\ engine_on
  /\ \A ch \in Channels : loopPc[ch] = "except"

(* ------------------------- supervisor claims -------------------------- *)
Pos(s, x) == CHOOSE i \in 1..Len(s) : s[i] = x

StoppedBefore(b, a) ==
  /\ b \in SeqSet(stopLog)
  /\ a \in SeqSet(stopLog) => Pos(stopLog, b) < Pos(stopLog, a)

(* C3 as stated: for subsystems A, B with A's start initiated before B's, B's
   stop() is invoked before A's: the stop order is the reverse of the start
   order 003, 004, 005, 006, 002. *)
C3_ReverseOfStartOrder ==
  \A i, j \in 1..Len(startLog) :
    (i < j /\ startLog[i] \in SeqSet(stopLog)) => StoppedBefore(startLog[j], startLog[i])

(* C3 as amended: stop() is invoked in the reverse of the start order among
   Engines 003..006 (006, 005, 004, 003), and Engine 002, whose start is
   initiated last, is stopped last, after all of them. *)
C3_ReverseAmongSyncThenMother ==
  /\ \A i, j \in 1..Len(startLog) :
       (/\ i < j
        /\ startLog[i] \in SyncEngines
        /\ startLog[j] \in SyncEngines
        /\ startLog[i] \in SeqSet(stopLog)) => StoppedBefore(startLog[j], startLog[i])
  /\ "Engine_002" \in SeqSet(stopLog) =>
       \A e \in SyncEngines : StoppedBefore(e, "Engine_002")
  /\ \A i, j \in 1..Len(stopLog) : stopLog[i] = stopLog[j] => i = j

\* a shutdown that has invoked all five stop() calls and returned
C3_Witness ==
  /\ Len(stopLog) = 5
  /\ mainPc = "done"

(* C4: when main reports that all engines are stopped and returns, stop() has
   been invoked on every subsystem whose start() was invoked. *)
C4_AllStoppedAtReturn ==
  mainPc = "done" => \A e \in SeqSet(startLog) : e \in SeqSet(stopLog)

(* C5: engine_on is false before any stop() is invoked, and no stop() is
   invoked once the first listener thread has been joined. *)
C5_ShutdownStepOrder ==
  /\ [](stopLog # <<>> => ~engine_on)
  /\ [][joined > 0 => stopLog' = stopLog]_vars
  /\ [][stopLog' # stopLog => (~engine_on /\ joined = 0)]_vars

\* an interrupt shutdown in its cleanup: all stops invoked, all loops joined
C5_Witness ==
  /\ Len(stopLog) = 5
  /\ joined = Len(Listeners)
  /\ ~engine_on

(* C6: no listener loop is started (so no message is forwarded) before start()
   of every dependent subsystem, Engine 002 included, has returned; each
   start() is initiated only after the previous one has returned; the monitor
   is started only after all four loops are. *)
C6_SequentialStartup ==
  /\ (\E ch \in Channels : loopPc[ch] # "init") =>
       \A e \in Dependents : started[e] = "returned"
  /\ \A i \in 1..Len(startLog) : i < Len(startLog) => started[startLog[i]] = "returned"
  /\ monPc # "init" => \A ch \in Channels : loopPc[ch] # "init"

(* C8: once start() of a dependent subsystem has failed, the supervisor
   initiates no further start() and starts no listener loop. *)
C8_StartFailureIsFatal ==
  [][(\E e \in Dependents : started[e] = "failed") =>
       (/\ startLog' = startLog
        /\ \A ch \in Channels : loopPc[ch] = "init" => loopPc'[ch] = "init")]_vars

(* C9: if a stop() fails during shutdown, main still invokes stop() on every
   remaining supervised subsystem and still reaches its cleanup, joining the
   listener threads, before it ends. *)
C9_BestEffortShutdown ==
  (failure = "stop" /\ MainEnded) =>
     (/\ \A e \in Dependents : e \in SeqSet(stopLog)
      /\ joined = Len(threads))

(* --------------------------- monitor claims --------------------------- *)
MonitorMoved == monPc # "init" /\ <<monPc, monIdx, warned, polled>>' # <<monPc, monIdx, warned, polled>>

(* C10: in each polling period the monitor calls is_running() on every
   supervised subsystem that has it, emits exactly one warning for each
   subsystem whose is_running() returned false and none for any other, and no
   step of the monitor, whatever it read, ends the monitor or the process. *)
C10_OneWarningPerPeriod ==
  /\ [](\A e \in Engines : warned[e] = IF polled[e] = "down" THEN 1 ELSE 0)
  /\ [](\A i \in 1..Len(allEngines) :
          (i < monIdx \/ (i = monIdx /\ monPc = "status")) =>
             (HasIsRunning(allEngines[i]) <=> polled[allEngines[i]] # "no"))
  /\ [][MonitorMoved =>
          (/\ monPc' \in {"sleep", "check", "status"}
           /\ mainPc' = mainPc
           /\ exited' = exited)]_vars

\* a period has ended in which a crashed subsystem was reported, main still in
\* its keep-alive loop, and the monitor has begun the next period
C10_Witness ==
  /\ monPc = "sleep"
  /\ monIdx > Len(allEngines)
  /\ \E e \in Engines : warned[e] = 1 /\ polled[e] = "down"
  /\ \E e \in Engines : ~HasIsRunning(e) /\ ~running[e] /\ warned[e] = 0
  /\ InTry
  /\ engine_on

(* C14: UnifiedMessage.create derives payload_type from input_type for every
   input_type (audio gives binary, event and signal give dict, anything else
   gives string), and the created message carries the default engine_source
   and a session_id generated by uuid4. *)
C14_CreateDerivesPayloadType ==
  \A i \in 1..Len(made) :
    made[i].by = "create" =>
      LET m == made[i].message IN
        /\ m.input_type = "audio" => m.payload_type = "binary"
        /\ m.input_type \in {"event", "signal"} => m.payload_type = "dict"
        /\ m.input_type \notin {"audio", "event", "signal"} => m.payload_type = "string"
        /\ m.engine_source = "ENGINE_001"
        /\ \E n \in 1..uuids : m.session_id = Uuid4(n)

C14_Witness ==
  \E i \in 1..Len(made) :
    /\ made[i].by = "create"
    /\ made[i].message.input_type = "audio"
    /\ made[i].message.source_device = "microphone"
    /\ made[i].message.payload_type = "binary"

(* C15 as stated: every message, whichever way it is constructed, carries the
   payload_type derived from its input_type; in particular no message with
   input_type audio carries payload_type string. *)
C15_DerivationHoldsForEveryMessage ==
  \A i \in 1..Len(made) :
    LET m == made[i].message IN
      /\ m.input_type = "audio" => m.payload_type = "binary"
      /\ m.input_type \in {"event", "signal"} => m.payload_type = "dict"
      /\ m.input_type \notin {"audio", "event", "signal"} => m.payload_type = "string"

(* C16: every constructed message has a session_id that is neither None nor
   empty, and two messages constructed without a session_id argument have
   distinct session_ids. *)
C16_SessionIdPresentAndFresh ==
  /\ \A i \in 1..Len(made) : made[i].message.session_id \notin {None, "", Absent}
  /\ \A i, j \in 1..Len(made) :
       (i # j /\ ~made[i].sid_given /\ ~made[j].sid_given)
         => made[i].message.session_id # made[j].message.session_id

C16_Witness ==
  \E i, j \in 1..Len(made) :
    /\ made[i].by = "init" /\ ~made[i].sid_given
    /\ made[j].by = "create"
    /\ made[i].message.session_id # made[j].message.session_id

(* C17: the monitor only observes.  No step of monitor_engines changes
   engine_on, a channel flag, the set of supervised subsystems or what a
   subsystem's is_running() returns; it calls is_running() and get_status()
   only on subsystems that have them; a subsystem lacking is_running() gets no
   warning, and at a subsystem lacking either operation the monitor goes on to
   its next step. *)
C17_MonitorOnlyObserves ==
  /\ [][MonitorMoved =>
          UNCHANGED <<engine_on, enabled, ctrlMade, allEngines, running, caps, started>>]_vars
  /\ [](\A e \in Engines :
          /\ polled[e] # "no" => HasIsRunning(e)
          /\ e \in statusCalled => HasGetStatus(e)
          /\ ~HasIsRunning(e) => warned[e] = 0)
  /\ []((~exited /\ monPc \in {"check", "status"}) => ENABLED MonitorStep)

\* the monitor has passed a subsystem that lacks is_running() and one that lacks
\* get_status(), a subsystem that is down among them, and has finished the period
C17_Witness ==
  /\ monPc = "sleep"
  /\ monIdx = Len(allEngines) + 1
  /\ Len(allEngines) = Cardinality(Engines)
  /\ \E e \in Engines : ~HasIsRunning(e) /\ ~HasGetStatus(e) /\ ~running[e]
  /\ \E e \in Engines : e \in statusCalled /\ polled[e] = "down"

\* the payloads of the entries of a log that belong to a channel, in order
Payloads(log, ch) ==
  LET own == SelectSeq(log, LAMBDA r : r.input_type = ch)
  IN [i \in 1..Len(own) |-> own[i].raw_payload]

(* C12: within a channel the capture order is kept: the messages passed to
   gateway.forward for a channel are, in the same order, the non-absent
   captures its listener returned (all of them but possibly the last, still
   on its way). *)
C12_CaptureOrderPreserved ==
  \A ch \in Channels :
    LET c == Payloads(captured, ch)
        f == Payloads(forwarded, ch)
    IN /\ Len(f) <= Len(c)
       /\ \A i \in 1..Len(f) : f[i] = c[i]

\* a channel's first and second capture have both been forwarded
C12_Witness ==
  \E ch \in Channels :
    /\ Len(Payloads(captured, ch)) = 2
    /\ Len(Payloads(forwarded, ch)) = 2
    /\ SelectSeq(forwarded, LAMBDA r : r.input_type = ch)[2].payload_type
         = (IF ch = "audio" THEN "binary" ELSE IF ch = "text" THEN "string" ELSE "dict")

(* C18 as stated: between two consecutive listen() calls of one loop there is
   always a sleep; a loop that calls listen() again has slept since its last
   listen() returned. *)
C18_SleepBetweenListens ==
  \A ch \in traced : loopPc[ch] = "listen" => slept[ch]

(* C20: per channel every capture is handed to the gateway exactly once: the
   forwards of a channel are as many as its non-absent captures, less one
   exactly while the loop holds a capture it has not forwarded yet, and no
   capture is forwarded twice; a capture taken before engine_on or the
   channel's flag was cleared is forwarded all the same. *)
C20_ExactlyOnceHandOff ==
  \A ch \in Channels :
    LET f == Payloads(forwarded, ch)
    IN /\ Len(f) + (IF loopPc[ch] = "forward" THEN 1 ELSE 0) = Count(captured, ch)
       /\ \A i, j \in 1..Len(f) : i # j => f[i] # f[j]

\* one loop has ended after forwarding the capture it held when engine_on was
\* cleared, another idles after forwarding the capture it held when its flag
\* was cleared
C20_Witness ==
  \E x, y \in Channels :
    /\ x # y
    /\ loopPc[x] = "done" /\ fwdSinceStop[x] = 1
    /\ Count(forwarded, x) = 1 /\ Count(captured, x) = 1
    /\ loopPc[y] = "done" /\ ~enabled[y] /\ fwdSinceOff[y] = 1
    /\ Count(forwarded, y) = 1 /\ Count(captured, y) = 1

\* the loop of a channel is running: started, scheduled and not ended
Running(ch) == ch \notin starved /\ loopPc[ch] \notin {"init", "done"}

(* C11: re-enabling resumes forwarding without a restart of the loop.  While
   engine_on stays true no flag write and no idling ends a loop; if from some
   point on the channel's flag stays true, as after the flag was cleared and
   set again, the running loop calls listen() again and again, and, provided
   its listener keeps returning captures, forwards again and again. *)
C11_ReenableResumes ==
  \A ch \in Channels :
    /\ []((engine_on /\ loopPc[ch] # "init") => Running(ch) \/ ch \in starved)
    /\ <>[](Running(ch) /\ engine_on /\ enabled[ch]) => []<>(loopPc[ch] = "listen")
    /\ (<>[](Running(ch) /\ engine_on /\ enabled[ch]) /\ SF_vars(ListenCapture(ch)))
         => []<>(loopPc[ch] = "sleep")

\* a loop forwarded a capture under its cleared flag; the flag has been set
\* again, the loop has passed the channel check and holds a new capture
C11_Witness ==
  \E ch \in Channels :
    /\ engine_on /\ enabled[ch] /\ toggles = MaxToggles - 1
    /\ fwdSinceOff[ch] = 1
    /\ loopPc[ch] = "forward"

(* C13: the channels are independent.  A step of one loop changes neither the
   position of another loop nor any flag; and whatever X's loop does (idling
   behind its cleared flag, failing capture after capture), if engine_on and
   Y's flag stay true and Y's listener keeps returning captures, Y's loop
   forwards again and again. *)
C13_ChannelIndependence ==
  /\ [][\A x, y \in Channels :
          (x # y /\ loopPc'[x] # loopPc[x]) =>
             (loopPc'[y] = loopPc[y] /\ enabled' = enabled /\ engine_on' = engine_on)]_vars
  /\ \A x, y \in Channels :
       (/\ x # y
        /\ []<>(Running(x) /\ (loopPc[x] = "except" \/ ~enabled[x]))
        /\ <>[](Running(y) /\ engine_on /\ enabled[y])
        /\ SF_vars(ListenCapture(y)))
         => []<>(loopPc[y] = "sleep")

\* X idles behind its cleared flag while Y, enabled, has just forwarded
C13_Witness ==
  \E x, y \in Channels :
    /\ x # y /\ engine_on
    /\ ~enabled[x] /\ loopPc[x] = "idle"
    /\ enabled[y] /\ loopPc[y] = "sleep"

(* C19 as stated: once the shutdown has begun main always goes on to the end
   of the cleanup and returns: from the handler, the stop() calls and the
   joins, every step of main that is not a further KeyboardInterrupt leads on
   through the shutdown or to the return. *)
C19_ShutdownAlwaysReturns ==
  [][(mainPc \in {"handler", "stopping", "join"} /\ interrupts' = interrupts)
       => mainPc' \in {"handler", "stopping", "join", "done"}]_vars

====
